---- MODULE Spec2Model ----
(***************************************************************************)
(* Posts-and-likes HTTP service (src/app.js): two tables (posts, likes)    *)
(* behind six Express handlers.  Every handler is an async function: it    *)
(* runs up to its next `await` of a store call, and the store calls of     *)
(* different requests interleave.  One action below is one such step:      *)
(* a store call together with the handler code that follows it.            *)
(***************************************************************************)
EXTENDS Integers, Sequences, FiniteSets, TLC

\* ---- bounds of the model ------------------------------------------------
MaxLikeId == 2      \* at most this many like rows are ever inserted

\* ---- small input sets ---------------------------------------------------
Req == {"r1", "r2"}                    \* requests that can be in flight together
PostStrIds == {"A", "B"}
Contents == {"x"}                     \* post contents under Spec
ContentsPosts == {"x", "y"}            \* post contents under SpecPosts
Users == {"u1", "u2"}
FaultUsers == {"u1"}                   \* users under SpecFault
Missing == ""                          \* an absent / empty (falsy) body field
LimitQueries == {"absent", "abc", "-1", "0", "1"}   \* ?limit=... as sent

\* `|| 5` of line 216
DefaultLimit == 5

VARIABLES posts, likes, nextPostId, nextLikeId, req, sync, listening, trip

vars == <<posts, likes, nextPostId, nextLikeId, req, sync, listening, trip>>

\* ---- helpers on sequences -----------------------------------------------
RECURSIVE SelectRows(_, _, _)
\* the rows of table s (in row order) whose index is in keep
SelectRows(s, keep, i) ==
    IF i > Len(s) THEN <<>>
    ELSE IF i \in keep THEN <<s[i]>> \o SelectRows(s, keep, i + 1)
    ELSE SelectRows(s, keep, i + 1)

Min(a, b) == IF a < b THEN a ELSE b

\* ---- the store ----------------------------------------------------------
\* Post.findOne({ where: { post_str_id } }): the row, or NoPost
NoPost == [id |-> 0, post_str_id |-> Missing, content |-> Missing]

FindPost(sid) ==
    IF \E i \in DOMAIN posts : posts[i].post_str_id = sid
    THEN posts[CHOOSE i \in DOMAIN posts : posts[i].post_str_id = sid]
    ELSE NoPost

PostUniqueViolation_NoIndex(sid) == FALSE

\* the unique index on posts.post_str_id rejects an insert
PostUniqueViolation(sid) == \E i \in DOMAIN posts : posts[i].post_str_id = sid

\* indexes of the like rows of (user, post)
LikeRows(u, pid) ==
    {i \in DOMAIN likes : likes[i].user_id_str = u /\ likes[i].PostId = pid}

LikeUniqueViolation_NoIndex(u, pid) == FALSE

\* the unique index on likes(user_id_str, PostId) rejects an insert
LikeUniqueViolation(u, pid) == LikeRows(u, pid) # {}

\* post.countLikes(): SELECT COUNT(*) FROM likes WHERE PostId = post.id
CountLikes_AllRows(pid) == Len(likes)

CountLikes(pid) == Cardinality({i \in DOMAIN likes : likes[i].PostId = pid})

\* What findOrCreate does when its INSERT hits the unique index because
\* another request inserted the row after this request's SELECT: it either
\* re-reads the row and returns [row, false], or the error leaves
\* findOrCreate and reaches the handler's catch block (Sequelize documents
\* the second outcome for the SQLite dialect, which line 12 selects).
RaceOutcomes == {"refound", "thrown"}

\* ---- requests -----------------------------------------------------------
Idle == [kind |-> "none", pc |-> "idle", post_str_id |-> Missing,
         content |-> Missing, user_id_str |-> Missing, limit |-> "absent",
         post |-> 0, status |-> 0, body |-> "", internal_db_id |-> 0,
         like_count |-> 0, result |-> <<>>, access |-> 0, failed |-> FALSE]

\* no handler is running in r
Vacant(r) == req[r].pc \in {"idle", "done"}

\* a request arrives in the first place where no handler is running (r2 is
\* taken only while the handler in r1 is suspended in a store call)
Free(r) == listening /\ Vacant(r) /\ (r = "r2" => ~Vacant("r1"))

\* the requests after one arrives in r and runs to rec: the responses already
\* sent are forgotten
Arrive(r, rec) ==
    [s \in Req |-> IF s = r THEN rec ELSE IF Vacant(s) THEN Idle ELSE req[s]]

\* res.status(code).json(...) ends the handler
Respond(rec, code, text) ==
    [rec EXCEPT !.pc = "done", !.status = code, !.body = text, !.post = 0]

\* number of handlers that are about to INSERT a row
PendingInserts(k) == Cardinality({r \in Req : req[r].kind = k /\ req[r].pc = "insert"})

\* History of the last two requests, kept for the round trip of a like and
\* an unlike: after a like inserted the row of (user, post) it holds the likes
\* table as it was before the INSERT ("liked"), it is kept when the next
\* step is the arrival of an unlike of the same pair ("unliking"), and it is
\* "undone" when the step after that is the DELETE of that unlike.  Any other
\* step forgets it.
NoTrip == [stage |-> "none", user |-> Missing, post |-> 0, before |-> <<>>]

\* the unlike of (u, pid) follows the like that trip recorded, at stage st
Follows(u, pid, st) ==
    trip.stage = st /\ trip.user = u /\ trip.post = pid

Init ==
    /\ posts = <<>>
    /\ likes = <<>>
    /\ nextPostId = 1
    /\ nextLikeId = 1
    /\ req = [r \in Req |-> Idle]
    /\ sync = "pending"
    /\ listening = FALSE
    /\ trip = NoTrip

\* ---- startup ------------------------------------------------------------
\* lines 281-283: sequelize.sync() resolves, the tables exist
SyncResolves ==
    /\ sync = "pending"
    /\ sync' = "done"
    /\ UNCHANGED <<posts, likes, nextPostId, nextLikeId, req, listening, trip>>

\* lines 289-291: sequelize.sync() rejects, the error is logged
SyncRejects ==
    /\ sync = "pending"
    /\ sync' = "failed"
    /\ UNCHANGED <<posts, likes, nextPostId, nextLikeId, req, listening, trip>>

\* a variant of Listen that does not wait for sequelize.sync()
Listen_Eager ==
    /\ sync \in {"pending", "done"}
    /\ ~listening
    /\ listening' = TRUE
    /\ UNCHANGED <<posts, likes, nextPostId, nextLikeId, req, sync, trip>>

\* lines 283-288: the then-callback of sequelize.sync() calls app.listen
Listen ==
    /\ sync = "done"
    /\ ~listening
    /\ listening' = TRUE
    /\ UNCHANGED <<posts, likes, nextPostId, nextLikeId, req, sync, trip>>

\* ---- POST /posts --------------------------------------------------------
\* a variant of CreatePost whose findOrCreate overwrites the content of an
\* existing row
CreatePost_Upsert(r, sid, c) ==
    /\ Free(r)
    /\ LET rec == [Idle EXCEPT !.kind = "createPost", !.post_str_id = sid, !.content = c]
           found == FindPost(sid)
       IN IF sid = Missing \/ c = Missing
          THEN /\ req' = Arrive(r, Respond(rec, 400, "Invalid input"))
               /\ UNCHANGED posts
          ELSE IF found # NoPost
          THEN /\ req' = Arrive(r,
                     Respond([rec EXCEPT !.access = 1], 409, "Post with this ID already exists"))
               /\ posts' = [i \in DOMAIN posts |->
                              IF posts[i].post_str_id = sid
                              THEN [posts[i] EXCEPT !.content = c] ELSE posts[i]]
          ELSE /\ req' = Arrive(r, [rec EXCEPT !.pc = "insert", !.access = 1])
               /\ UNCHANGED posts
    /\ UNCHANGED <<likes, nextPostId, nextLikeId, sync, listening>>
    /\ trip' = NoTrip

\* a variant of CreatePost that does not validate the body
CreatePost_NoValidation(r, sid, c) ==
    /\ Free(r)
    /\ LET rec == [Idle EXCEPT !.kind = "createPost", !.post_str_id = sid, !.content = c]
           found == FindPost(sid)
       IN IF found # NoPost
          THEN req' = Arrive(r,
                     Respond([rec EXCEPT !.access = 1], 409, "Post with this ID already exists"))
          ELSE /\ req' = Arrive(r, [rec EXCEPT !.pc = "insert", !.access = 1])
    /\ UNCHANGED <<posts, likes, nextPostId, nextLikeId, sync, listening>>
    /\ trip' = NoTrip

\* lines 80-96: validation, then the SELECT of Post.findOrCreate
CreatePost(r, sid, c) ==
    /\ Free(r)
    /\ LET rec == [Idle EXCEPT !.kind = "createPost", !.post_str_id = sid, !.content = c]
           found == FindPost(sid)
       IN IF sid = Missing \/ c = Missing
          THEN req' = Arrive(r, Respond(rec, 400, "Invalid input"))
          ELSE IF found # NoPost
          THEN req' = Arrive(r,
                     Respond([rec EXCEPT !.access = 1], 409, "Post with this ID already exists"))
          ELSE /\ req' = Arrive(r, [rec EXCEPT !.pc = "insert", !.access = 1])
    /\ UNCHANGED <<posts, likes, nextPostId, nextLikeId, sync, listening>>
    /\ trip' = NoTrip

\* lines 87-107: the INSERT of Post.findOrCreate and the response
CreatePostInsert(r) ==
    /\ req[r].kind = "createPost"
    /\ req[r].pc = "insert"
    /\ LET rec == [req[r] EXCEPT !.access = 2]
       IN IF PostUniqueViolation(rec.post_str_id)
          THEN /\ \E o \in RaceOutcomes :
                    req' = [req EXCEPT ![r] =
                        IF o = "refound"
                        THEN Respond(rec, 409, "Post with this ID already exists")
                        ELSE Respond(rec, 500, "Internal server error")]
               /\ UNCHANGED <<posts, nextPostId>>
          ELSE /\ posts' = Append(posts, [id |-> nextPostId,
                                          post_str_id |-> rec.post_str_id,
                                          content |-> rec.content])
               /\ nextPostId' = nextPostId + 1
               /\ req' = [req EXCEPT ![r] =
                     Respond([rec EXCEPT !.internal_db_id = nextPostId], 201, "created")]
    /\ UNCHANGED <<likes, nextLikeId, sync, listening>>
    /\ trip' = NoTrip

\* ---- POST /posts/:post_str_id/like --------------------------------------
\* a variant of Like that checks the body before it looks the post up
Like_ValidateFirst(r, sid, u) ==
    /\ Free(r)
    /\ LET rec == [Idle EXCEPT !.kind = "like", !.post_str_id = sid, !.user_id_str = u]
           post == FindPost(sid)
       IN IF u = Missing
          THEN req' = Arrive(r, Respond(rec, 400, "User ID is required"))
          ELSE IF post = NoPost
          THEN req' = Arrive(r, Respond([rec EXCEPT !.access = 1], 404, "Post not found"))
          ELSE req' = Arrive(r, [rec EXCEPT !.pc = "find", !.post = post.id, !.access = 1])
    /\ UNCHANGED <<posts, likes, nextPostId, nextLikeId, sync, listening>>
    /\ trip' = NoTrip

\* lines 115-127: Post.findOne, 404 if absent, then the body check
Like(r, sid, u) ==
    /\ Free(r)
    /\ LET rec == [Idle EXCEPT !.kind = "like", !.post_str_id = sid,
                               !.user_id_str = u, !.access = 1]
           post == FindPost(sid)
       IN IF post = NoPost
          THEN req' = Arrive(r, Respond(rec, 404, "Post not found"))
          ELSE IF u = Missing
          THEN req' = Arrive(r, Respond(rec, 400, "User ID is required"))
          ELSE req' = Arrive(r, [rec EXCEPT !.pc = "find", !.post = post.id])
    /\ UNCHANGED <<posts, likes, nextPostId, nextLikeId, sync, listening>>
    /\ trip' = NoTrip

\* a variant of LikeFind that reports a found row as newly created
LikeFind_Created(r) ==
    /\ req[r].kind = "like"
    /\ req[r].pc = "find"
    /\ LET rec == [req[r] EXCEPT !.access = 2]
       IN IF LikeRows(rec.user_id_str, rec.post) # {}
          THEN req' = [req EXCEPT ![r] = Respond(rec, 201, "liked")]
          ELSE /\ nextLikeId + PendingInserts("like") <= MaxLikeId
               /\ req' = [req EXCEPT ![r] = [rec EXCEPT !.pc = "insert"]]
    /\ UNCHANGED <<posts, likes, nextPostId, nextLikeId, sync, listening>>
    /\ trip' = NoTrip

\* lines 129-135: the SELECT of Like.findOrCreate
LikeFind(r) ==
    /\ req[r].kind = "like"
    /\ req[r].pc = "find"
    /\ LET rec == [req[r] EXCEPT !.access = 2]
       IN IF LikeRows(rec.user_id_str, rec.post) # {}
          THEN req' = [req EXCEPT ![r] = Respond(rec, 200, "already_liked")]
          ELSE /\ nextLikeId + PendingInserts("like") <= MaxLikeId
               /\ req' = [req EXCEPT ![r] = [rec EXCEPT !.pc = "insert"]]
    /\ UNCHANGED <<posts, likes, nextPostId, nextLikeId, sync, listening>>
    /\ trip' = NoTrip

\* lines 129-142: the INSERT of Like.findOrCreate and the response
LikeInsert(r) ==
    /\ req[r].kind = "like"
    /\ req[r].pc = "insert"
    /\ LET rec == [req[r] EXCEPT !.access = 3]
       IN IF LikeUniqueViolation(rec.user_id_str, rec.post)
          THEN /\ \E o \in RaceOutcomes :
                    req' = [req EXCEPT ![r] =
                        IF o = "refound"
                        THEN Respond(rec, 200, "already_liked")
                        ELSE Respond(rec, 500, "Internal server error")]
               /\ UNCHANGED <<likes, nextLikeId>>
               /\ trip' = NoTrip
          ELSE /\ likes' = Append(likes, [id |-> nextLikeId,
                                          user_id_str |-> rec.user_id_str,
                                          PostId |-> rec.post])
               /\ nextLikeId' = nextLikeId + 1
               /\ req' = [req EXCEPT ![r] = Respond(rec, 201, "liked")]
               /\ trip' = [stage |-> "liked", user |-> rec.user_id_str,
                           post |-> rec.post, before |-> likes]
    /\ UNCHANGED <<posts, nextPostId, sync, listening>>

\* ---- GET /posts/:post_str_id/likes --------------------------------------
\* lines 149-156: Post.findOne, 404 if absent
Count(r, sid) ==
    /\ Free(r)
    /\ LET rec == [Idle EXCEPT !.kind = "count", !.post_str_id = sid, !.access = 1]
           post == FindPost(sid)
       IN IF post = NoPost
          THEN req' = Arrive(r, Respond(rec, 404, "Post not found"))
          ELSE req' = Arrive(r, [rec EXCEPT !.pc = "countLikes", !.post = post.id])
    /\ UNCHANGED <<posts, likes, nextPostId, nextLikeId, sync, listening>>
    /\ trip' = NoTrip

\* lines 159-164: post.countLikes() and the response
CountRespond(r) ==
    /\ req[r].kind = "count"
    /\ req[r].pc = "countLikes"
    /\ req' = [req EXCEPT ![r] =
          Respond([req[r] EXCEPT !.access = 2, !.like_count = CountLikes(req[r].post)],
                  200, "")]
    /\ UNCHANGED <<posts, likes, nextPostId, nextLikeId, sync, listening>>
    /\ trip' = NoTrip

\* ---- DELETE /posts/:post_str_id/like ------------------------------------
\* lines 177-189: Post.findOne, 404 if absent, then the body check
Unlike(r, sid, u) ==
    /\ Free(r)
    /\ LET rec == [Idle EXCEPT !.kind = "unlike", !.post_str_id = sid,
                               !.user_id_str = u, !.access = 1]
           post == FindPost(sid)
       IN IF post = NoPost
          THEN req' = Arrive(r, Respond(rec, 404, "Post not found"))
          ELSE IF u = Missing
          THEN req' = Arrive(r, Respond(rec, 400, "User ID is required"))
          ELSE req' = Arrive(r, [rec EXCEPT !.pc = "destroy", !.post = post.id])
    /\ UNCHANGED <<posts, likes, nextPostId, nextLikeId, sync, listening>>
    /\ trip' = IF FindPost(sid) # NoPost /\ u # Missing
                  /\ Follows(u, FindPost(sid).id, "liked")
               THEN [trip EXCEPT !.stage = "unliking"] ELSE NoTrip

\* a variant of UnlikeDestroy whose WHERE clause lacks the PostId term
UnlikeDestroy_AnyPost(r) ==
    /\ req[r].kind = "unlike"
    /\ req[r].pc = "destroy"
    /\ LET rec == [req[r] EXCEPT !.access = 2]
           doomed == {i \in DOMAIN likes : likes[i].user_id_str = rec.user_id_str}
       IN /\ likes' = SelectRows(likes, DOMAIN likes \ doomed, 1)
          /\ req' = [req EXCEPT ![r] =
                IF Cardinality(doomed) = 0
                THEN Respond(rec, 200, "not_liked_previously")
                ELSE Respond(rec, 200, "unliked")]
    /\ UNCHANGED <<posts, nextPostId, nextLikeId, sync, listening>>
    /\ trip' = IF Follows(req[r].user_id_str, req[r].post, "unliking")
               THEN [trip EXCEPT !.stage = "undone"] ELSE NoTrip

\* a variant of UnlikeDestroy whose WHERE clause lacks the user_id_str term
UnlikeDestroy_AnyUser(r) ==
    /\ req[r].kind = "unlike"
    /\ req[r].pc = "destroy"
    /\ LET rec == [req[r] EXCEPT !.access = 2]
           doomed == {i \in DOMAIN likes : likes[i].PostId = rec.post}
       IN /\ likes' = SelectRows(likes, DOMAIN likes \ doomed, 1)
          /\ req' = [req EXCEPT ![r] =
                IF Cardinality(doomed) = 0
                THEN Respond(rec, 200, "not_liked_previously")
                ELSE Respond(rec, 200, "unliked")]
    /\ UNCHANGED <<posts, nextPostId, nextLikeId, sync, listening>>
    /\ trip' = IF Follows(req[r].user_id_str, req[r].post, "unliking")
               THEN [trip EXCEPT !.stage = "undone"] ELSE NoTrip

\* a variant of UnlikeDestroy that answers from the matching rows but deletes none
UnlikeDestroy_KeepRow(r) ==
    /\ req[r].kind = "unlike"
    /\ req[r].pc = "destroy"
    /\ LET rec == [req[r] EXCEPT !.access = 2]
           doomed == LikeRows(rec.user_id_str, rec.post)
       IN req' = [req EXCEPT ![r] =
                IF Cardinality(doomed) = 0
                THEN Respond(rec, 200, "not_liked_previously")
                ELSE Respond(rec, 200, "unliked")]
    /\ UNCHANGED <<posts, likes, nextPostId, nextLikeId, sync, listening>>
    /\ trip' = IF Follows(req[r].user_id_str, req[r].post, "unliking")
               THEN [trip EXCEPT !.stage = "undone"] ELSE NoTrip

\* lines 191-202: Like.destroy({ where: { user_id_str, PostId } }) and the response
UnlikeDestroy(r) ==
    /\ req[r].kind = "unlike"
    /\ req[r].pc = "destroy"
    /\ LET rec == [req[r] EXCEPT !.access = 2]
           doomed == LikeRows(rec.user_id_str, rec.post)
       IN /\ likes' = SelectRows(likes, DOMAIN likes \ doomed, 1)
          /\ req' = [req EXCEPT ![r] =
                IF Cardinality(doomed) = 0
                THEN Respond(rec, 200, "not_liked_previously")
                ELSE Respond(rec, 200, "unliked")]
    /\ UNCHANGED <<posts, nextPostId, nextLikeId, sync, listening>>
    /\ trip' = IF Follows(req[r].user_id_str, req[r].post, "unliking")
               THEN [trip EXCEPT !.stage = "undone"] ELSE NoTrip

\* ---- GET /posts/top -----------------------------------------------------
NaN == [nan |-> TRUE, val |-> 0]
Num(n) == [nan |-> FALSE, val |-> n]

\* parseInt(req.query.limit, 10)
ParseInt(q) ==
    CASE q = "-1" -> Num(-1)
      [] q = "0" -> Num(0)
      [] q = "1" -> Num(1)
      [] OTHER -> NaN

\* line 216: parseInt(...) || 5, where NaN and 0 are falsy
Limit(q) ==
    LET n == ParseInt(q)
    IN IF n.nan \/ n.val = 0 THEN DefaultLimit ELSE n.val

\* COUNT(Likes.id) of the group of post pid in posts LEFT OUTER JOIN likes
LikeCountOf(pid) == Cardinality({i \in DOMAIN likes : likes[i].PostId = pid})

\* the orders the store may return the groups in under ORDER BY like_count
\* DESC: groups with equal like_count come in an order the store chooses
TopOrders ==
    {p \in [DOMAIN posts -> DOMAIN posts] :
        /\ \A i, j \in DOMAIN posts : i # j => p[i] # p[j]
        /\ \A i, j \in DOMAIN posts :
              i < j => LikeCountOf(posts[p[i]].id) >= LikeCountOf(posts[p[j]].id)}

\* LIMIT n of the store: a negative n means no limit (SQLite)
Truncate(s, n) == IF n < 0 THEN s ELSE SubSeq(s, 1, Min(n, Len(s)))

\* the {post_str_id, like_count} rows of the groups, in the order p
TopRows(p) ==
    [i \in DOMAIN posts |->
        [post_str_id |-> posts[p[i]].post_str_id,
         like_count |-> LikeCountOf(posts[p[i]].id)]]

\* the results the store may return for ?limit=q on the current tables
TopResults(q) == {Truncate(TopRows(p), Limit(q)) : p \in TopOrders}

\* a variant of Top whose join is an inner join: posts without likes drop out
Top_InnerJoin(r, q) ==
    /\ Free(r)
    /\ \E res \in TopResults(q) :
         LET liked == {i \in DOMAIN res : res[i].like_count > 0}
             rec == [Idle EXCEPT !.kind = "top", !.limit = q, !.access = 1,
                                 !.result = SelectRows(res, liked, 1)]
         IN req' = Arrive(r, Respond(rec, 200, ""))
    /\ UNCHANGED <<posts, likes, nextPostId, nextLikeId, sync, listening>>
    /\ trip' = NoTrip

\* lines 215-243: Post.findAll(... group, order, limit) and the response
Top(r, q) ==
    /\ Free(r)
    /\ \E res \in TopResults(q) :
         LET rec == [Idle EXCEPT !.kind = "top", !.limit = q, !.access = 1,
                                 !.result = res]
         IN req' = Arrive(r, Respond(rec, 200, ""))
    /\ UNCHANGED <<posts, likes, nextPostId, nextLikeId, sync, listening>>
    /\ trip' = NoTrip

\* ---- GET /users/:user_id_str/liked-posts --------------------------------
\* the like rows of user u, as indexes into likes
UserLikes(u) == {i \in DOMAIN likes : likes[i].user_id_str = u}

\* The query has no ORDER BY, so the store chooses the order of the rows: a
\* scan of the table gives them by id, a scan of the unique index
\* (user_id_str, PostId) gives them by PostId.
LikedOrders(u) ==
    LET n == Cardinality(UserLikes(u))
    IN {p \in [1..n -> UserLikes(u)] :
          /\ \A i, j \in 1..n : i # j => p[i] # p[j]
          /\ \/ \A i, j \in 1..n : i < j => likes[p[i]].id < likes[p[j]].id
             \/ \A i, j \in 1..n : i < j => likes[p[i]].PostId < likes[p[j]].PostId}

\* lines 255-269: Like.findAll({ where: { user_id_str }, include: Post })
LikedPosts(r, u) ==
    /\ Free(r)
    /\ \E p \in LikedOrders(u) :
         LET postOf(i) == CHOOSE k \in DOMAIN posts : posts[k].id = likes[p[i]].PostId
             rec == [Idle EXCEPT !.kind = "likedPosts", !.user_id_str = u, !.access = 1,
                        !.result = [i \in DOMAIN p |-> posts[postOf(i)].post_str_id]]
         IN req' = Arrive(r, Respond(rec, 200, ""))
    /\ UNCHANGED <<posts, likes, nextPostId, nextLikeId, sync, listening>>
    /\ trip' = NoTrip

\* ---- store failures -----------------------------------------------------
Kinds == {"createPost", "like", "count", "unlike", "top", "likedPosts"}

\* the request of kind k with the fields that kind reads
Request(k, sid, c, u, q) ==
    [Idle EXCEPT !.kind = k,
                 !.post_str_id = IF k \in {"createPost", "like", "count", "unlike"}
                                 THEN sid ELSE Missing,
                 !.content = IF k = "createPost" THEN c ELSE Missing,
                 !.user_id_str = IF k \in {"like", "unlike", "likedPosts"} THEN u ELSE Missing,
                 !.limit = IF k = "top" THEN q ELSE "absent"]

\* the catch block of a handler: 500 with the error message
Catch(rec) ==
    Respond([rec EXCEPT !.access = rec.access + 1, !.failed = TRUE],
            500, "Internal server error")

\* A request arrives and the first store call of its handler is rejected
\* (findOrCreate, findOne or findAll throws inside the try block).  A
\* create-post that misses a field has answered 400 before any store call.
FirstCallFails(r, k, sid, c, u, q) ==
    /\ Free(r)
    /\ k = "createPost" => (sid # Missing /\ c # Missing)
    /\ req' = Arrive(r, Catch(Request(k, sid, c, u, q)))
    /\ UNCHANGED <<posts, likes, nextPostId, nextLikeId, sync, listening>>
    /\ trip' = NoTrip

\* a variant of LaterCallFails in which the rejection is not caught: the
\* handler ends without an answer
LaterCallFails_Uncaught(r) ==
    /\ req[r].pc \in {"insert", "find", "countLikes", "destroy"}
    /\ req' = [req EXCEPT ![r] = [req[r] EXCEPT !.pc = "crashed", !.failed = TRUE,
                                                !.access = req[r].access + 1]]
    /\ UNCHANGED <<posts, likes, nextPostId, nextLikeId, sync, listening>>
    /\ trip' = NoTrip

\* a later store call of a suspended handler is rejected (the INSERT of
\* findOrCreate, the SELECT of Like.findOrCreate, countLikes, destroy)
LaterCallFails(r) ==
    /\ req[r].pc \in {"insert", "find", "countLikes", "destroy"}
    /\ req' = [req EXCEPT ![r] = Catch(req[r])]
    /\ UNCHANGED <<posts, likes, nextPostId, nextLikeId, sync, listening>>
    /\ trip' = NoTrip

Next ==
    \/ SyncResolves
    \/ SyncRejects
    \/ Listen
    \/ \E r \in Req, sid \in PostStrIds \cup {Missing}, c \in Contents \cup {Missing} :
          CreatePost(r, sid, c)
    \/ \E r \in Req : CreatePostInsert(r)
    \/ \E r \in Req, sid \in PostStrIds, u \in Users \cup {Missing} : Like(r, sid, u)
    \/ \E r \in Req : LikeFind(r)
    \/ \E r \in Req : LikeInsert(r)
    \/ \E r \in Req, sid \in PostStrIds : Count(r, sid)
    \/ \E r \in Req : CountRespond(r)
    \/ \E r \in Req, sid \in PostStrIds, u \in Users \cup {Missing} : Unlike(r, sid, u)
    \/ \E r \in Req : UnlikeDestroy(r)
    \/ \E r \in Req, q \in LimitQueries : Top(r, q)
    \/ \E r \in Req, u \in Users : LikedPosts(r, u)

Spec == Init /\ [][Next]_vars

\* POST /posts alone, with posts of different contents
NextPosts ==
    \/ SyncResolves
    \/ SyncRejects
    \/ Listen
    \/ \E r \in Req, sid \in PostStrIds \cup {Missing}, c \in ContentsPosts \cup {Missing} :
          CreatePost(r, sid, c)
    \/ \E r \in Req : CreatePostInsert(r)

SpecPosts == Init /\ [][NextPosts]_vars

\* the six handlers with store calls that may fail, for one user
NextFault ==
    \/ SyncResolves
    \/ SyncRejects
    \/ Listen
    \/ \E r \in Req, sid \in PostStrIds, c \in Contents \cup {Missing} : CreatePost(r, sid, c)
    \/ \E r \in Req : CreatePostInsert(r)
    \/ \E r \in Req, sid \in PostStrIds, u \in FaultUsers : Like(r, sid, u)
    \/ \E r \in Req : LikeFind(r)
    \/ \E r \in Req : LikeInsert(r)
    \/ \E r \in Req, sid \in PostStrIds : Count(r, sid)
    \/ \E r \in Req : CountRespond(r)
    \/ \E r \in Req, sid \in PostStrIds, u \in FaultUsers : Unlike(r, sid, u)
    \/ \E r \in Req : UnlikeDestroy(r)
    \/ \E r \in Req : Top(r, "absent")
    \/ \E r \in Req, u \in FaultUsers : LikedPosts(r, u)
    \/ \E r \in Req, sid \in PostStrIds, c \in Contents :
          FirstCallFails(r, "createPost", sid, c, Missing, "absent")
    \/ \E r \in Req, k \in {"like", "unlike"}, sid \in PostStrIds, u \in FaultUsers :
          FirstCallFails(r, k, sid, Missing, u, "absent")
    \/ \E r \in Req, sid \in PostStrIds :
          FirstCallFails(r, "count", sid, Missing, Missing, "absent")
    \/ \E r \in Req : FirstCallFails(r, "top", Missing, Missing, Missing, "absent")
    \/ \E r \in Req, u \in FaultUsers :
          FirstCallFails(r, "likedPosts", Missing, Missing, u, "absent")
    \/ \E r \in Req : LaterCallFails(r)

SpecFault == Init /\ [][NextFault]_vars

\* ---- properties ---------------------------------------------------------
\* a request arrives in r in this step
Arrival(r) == Vacant(r) /\ req'[r] # req[r] /\ req'[r].pc # "idle"

\* the handler in r, suspended at pc0 of a k request, takes its step
Step(r, k, pc0) == req[r].kind = k /\ req[r].pc = pc0 /\ req'[r] # req[r]

\* the users that have a like row on post pid in the table ls
Likers(ls, pid) == {ls[i].user_id_str : i \in {k \in DOMAIN ls : ls[k].PostId = pid}}

\* the rows of a table, as a set
RowSet(ls) == {ls[i] : i \in DOMAIN ls}

\* C1: the likes table never holds two rows with the same
\* (user_id_str, PostId) pair.
C1_UniqueLikePair ==
    \A i, j \in DOMAIN likes :
        (likes[i].user_id_str = likes[j].user_id_str /\ likes[i].PostId = likes[j].PostId)
            => i = j

\* a like request issued its INSERT after another request had inserted the
\* same pair
C1_Witness ==
    \E r \in Req : /\ req[r].kind = "like" /\ req[r].pc = "done" /\ req[r].access = 3
                    /\ req[r].status \in {200, 500}
                    /\ Len(likes) >= 1

\* C2: two like requests for the same (user, post) whose store calls
\* interleave (both issued their INSERT) leave exactly one like row, and one
\* is answered 201 "liked", the other 200 "already_liked"; none is answered 500.
C2_ConcurrentLikes ==
    \A r, s \in Req :
        (/\ r # s
         /\ req[r].kind = "like" /\ req[s].kind = "like"
         /\ req[r].pc = "done" /\ req[s].pc = "done"
         /\ req[r].access = 3 /\ req[s].access = 3
         /\ req[r].post_str_id = req[s].post_str_id
         /\ req[r].user_id_str = req[s].user_id_str)
        => /\ Cardinality(LikeRows(req[r].user_id_str, FindPost(req[r].post_str_id).id)) = 1
           /\ {req[r].status, req[s].status} = {200, 201}
           /\ \A t \in {r, s} :
                 req[t].body = IF req[t].status = 201 THEN "liked" ELSE "already_liked"

\* C3: two create-post requests with the same post_str_id whose store calls
\* interleave (both issued their INSERT) leave exactly one post row with that
\* post_str_id, and one is answered 201, the other 409; none is answered 500
\* or left unanswered.
C3_ConcurrentCreates ==
    \A r, s \in Req :
        (/\ r # s
         /\ req[r].kind = "createPost" /\ req[s].kind = "createPost"
         /\ req[r].pc = "done" /\ req[s].pc = "done"
         /\ req[r].access = 2 /\ req[s].access = 2
         /\ req[r].post_str_id = req[s].post_str_id)
        => /\ Cardinality({i \in DOMAIN posts : posts[i].post_str_id = req[r].post_str_id}) = 1
           /\ {req[r].status, req[s].status} = {201, 409}

\* C4: the like_count that GET /posts/:post_str_id/likes returns for an
\* existing post is the number of distinct users that have a like row on the
\* post when the count is taken (0 when there is none).
C4_CountIsDistinctUsers ==
    [][\A r \in Req :
          (Step(r, "count", "countLikes") /\ req'[r].pc = "done")
          => /\ req'[r].status = 200
             /\ req'[r].like_count =
                   Cardinality(Likers(likes, FindPost(req[r].post_str_id).id))]_vars

\* a count of 2 was returned
C4_Witness ==
    \E r \in Req : /\ req[r].kind = "count" /\ req[r].pc = "done"
                    /\ req[r].status = 200 /\ req[r].like_count = 2

\* C5: a like, unlike or count request for a post_str_id that does not
\* exist is answered 404 and leaves posts and likes unchanged, whatever its
\* body (also without user_id_str).
C5_NoPost404 ==
    [][\A r \in Req :
          (/\ Arrival(r)
           /\ req'[r].kind \in {"like", "unlike", "count"}
           /\ FindPost(req'[r].post_str_id) = NoPost)
          => /\ req'[r].pc = "done" /\ req'[r].status = 404
             /\ posts' = posts /\ likes' = likes]_vars

\* a like without user_id_str for a post that does not exist got 404
C5_Witness ==
    \E r \in Req : /\ req[r].kind = "like" /\ req[r].pc = "done"
                    /\ req[r].user_id_str = Missing /\ req[r].status = 404

\* a required body field of the request in rec is missing
MissingField(rec) ==
    \/ rec.kind = "createPost" /\ (rec.post_str_id = Missing \/ rec.content = Missing)
    \/ rec.kind \in {"like", "unlike"} /\ rec.user_id_str = Missing

\* C6 (as stated): a create-post, like or unlike request that misses a
\* required body field is answered 400 and makes no store access.
C6_Original ==
    \A r \in Req :
        (req[r].pc = "done" /\ MissingField(req[r]))
        => (req[r].status = 400 /\ req[r].access = 0)

\* C6 (amended): a create-post request that misses a field is answered 400
\* without any store access; a like or unlike request without user_id_str
\* makes exactly one store access, the lookup of the post, writes nothing,
\* and is answered 400 if the post exists and 404 if it does not.
C6_Amended ==
    [][\A r \in Req :
          (Arrival(r) /\ MissingField(req'[r]))
          => /\ req'[r].pc = "done"
             /\ posts' = posts /\ likes' = likes
             /\ req'[r].kind = "createPost"
                   => (req'[r].status = 400 /\ req'[r].access = 0)
             /\ req'[r].kind \in {"like", "unlike"}
                   => /\ req'[r].access = 1
                      /\ req'[r].status =
                            IF FindPost(req'[r].post_str_id) = NoPost THEN 404 ELSE 400]_vars

\* a like without user_id_str for an existing post got 400 after the lookup
C6_Witness ==
    \E r \in Req : /\ req[r].kind = "like" /\ req[r].pc = "done"
                    /\ req[r].user_id_str = Missing /\ req[r].status = 400
                    /\ req[r].access = 1

\* C7: a create-post request for a post_str_id that already exists is
\* answered 409 and changes no row, also when it carries another content;
\* the request that inserts the row is answered 201, and no step of any
\* request changes the id, post_str_id or content of an existing row.
C7_CreateTwice ==
    [][/\ \A r \in Req :
            /\ (/\ Arrival(r) /\ req'[r].kind = "createPost"
                 /\ ~MissingField(req'[r])
                 /\ FindPost(req'[r].post_str_id) # NoPost)
                => (req'[r].pc = "done" /\ req'[r].status = 409 /\ posts' = posts)
            /\ (Step(r, "createPost", "insert") /\ ~PostUniqueViolation(req[r].post_str_id))
                => /\ req'[r].pc = "done" /\ req'[r].status = 201
                   /\ posts' = Append(posts, [id |-> req'[r].internal_db_id,
                                               post_str_id |-> req[r].post_str_id,
                                               content |-> req[r].content])
       /\ \A i \in DOMAIN posts : i \in DOMAIN posts' /\ posts'[i] = posts[i]]_vars

\* a second create-post with another content was answered 409
C7_Witness ==
    \E r \in Req : /\ req[r].kind = "createPost" /\ req[r].pc = "done"
                    /\ req[r].status = 409 /\ req[r].access = 1
                    /\ FindPost(req[r].post_str_id).content # req[r].content

\* C8: a like of a pair that has no row is answered 201 "liked" and raises
\* the post's like count by 1; a like that follows it with no unlike in
\* between finds the row, is answered 200 "already_liked" and leaves the likes
\* as they are, so the count is 1 higher than before the first like, not 2.
C8_LikeTwice ==
    [][\A r \in Req :
          LET u == req[r].user_id_str
              pid == FindPost(req[r].post_str_id).id
          IN /\ (Step(r, "like", "find") /\ LikeRows(u, pid) # {})
                => /\ req'[r].pc = "done" /\ req'[r].status = 200
                   /\ req'[r].body = "already_liked"
                   /\ likes' = likes
             /\ (Step(r, "like", "insert") /\ LikeRows(u, pid) = {})
                => /\ req'[r].pc = "done" /\ req'[r].status = 201
                   /\ req'[r].body = "liked"
                   /\ Likers(likes', pid) = Likers(likes, pid) \cup {u}
                   /\ Len(likes') = Len(likes) + 1]_vars

\* the second like of a pair found the row of the first
C8_Witness ==
    \E r \in Req : /\ req[r].kind = "like" /\ req[r].pc = "done"
                    /\ req[r].status = 200 /\ req[r].access = 2
                    /\ Cardinality(Likers(likes, FindPost(req[r].post_str_id).id)) = 1

\* C9: the DELETE of an unlike request on an existing post is answered 200
\* "unliked" exactly when a row of (user, post) existed, and then removes that
\* row and no other; otherwise it is answered 200 "not_liked_previously" and
\* the likes are unchanged.  Afterwards the pair has no row, so a second
\* unlike is answered "not_liked_previously" and changes nothing.
C9_Unlike ==
    [][\A r \in Req :
          (Step(r, "unlike", "destroy") /\ req'[r].pc = "done")
          => LET u == req[r].user_id_str
                 pid == FindPost(req[r].post_str_id).id
                 had == \E i \in DOMAIN likes :
                           likes[i].user_id_str = u /\ likes[i].PostId = pid
             IN /\ req'[r].status = 200
                /\ req'[r].body = IF had THEN "unliked" ELSE "not_liked_previously"
                /\ RowSet(likes') =
                      {row \in RowSet(likes) : ~(row.user_id_str = u /\ row.PostId = pid)}
                /\ Len(likes') = Len(likes) - (IF had THEN 1 ELSE 0)
                /\ ~had => likes' = likes]_vars

\* an unlike removed a row and left another row in place
C9_Witness ==
    \E r \in Req : /\ req[r].kind = "unlike" /\ req[r].pc = "done"
                    /\ req[r].body = "unliked"
                    /\ likes # <<>>

\* C10: for every integer limit (also 0 and negative ones) GET /posts/top
\* returns at most limit entries, ordered by like_count descending.  A list
\* has no fewer than 0 entries, so a limit below 0 is read as allowing none.
C10_TopAtMostLimit ==
    \A r \in Req :
        (/\ req[r].kind = "top" /\ req[r].pc = "done" /\ req[r].status = 200
         /\ ~ParseInt(req[r].limit).nan)
        => LET n == ParseInt(req[r].limit).val
           IN /\ Len(req[r].result) <= (IF n < 0 THEN 0 ELSE n)
              /\ \A i, j \in DOMAIN req[r].result :
                    i < j => req[r].result[i].like_count >= req[r].result[j].like_count
\* the number of like rows on the post with string id sid in the table ls
LikesOn(ls, sid) ==
    Cardinality({i \in DOMAIN ls : ls[i].PostId = FindPost(sid).id})

\* C11: GET /posts/top ranks all posts, also those without likes, which
\* appear with like_count 0: every entry names an existing post once and
\* carries its current number of like rows, a post is left out only when the
\* result is full, and no post left out has more likes than a returned one.
C11_TopRanksAllPosts ==
    [][\A r \in Req :
          (Arrival(r) /\ req'[r].kind = "top")
          => LET res == req'[r].result
                 shown == {res[i].post_str_id : i \in DOMAIN res}
                 all == {posts[i].post_str_id : i \in DOMAIN posts}
             IN /\ req'[r].status = 200
                /\ shown \subseteq all
                /\ Cardinality(shown) = Len(res)
                /\ \A i \in DOMAIN res :
                      res[i].like_count = LikesOn(likes, res[i].post_str_id)
                /\ shown # all => Len(res) = Limit(req'[r].limit)
                /\ \A sid \in all \ shown : \A i \in DOMAIN res :
                      LikesOn(likes, sid) <= res[i].like_count]_vars

\* a ranking of two posts lists the one without likes, with like_count 0
C11_Witness ==
    \E r \in Req : /\ req[r].kind = "top" /\ req[r].pc = "done"
                    /\ Len(req[r].result) = 2
                    /\ req[r].result[1].like_count >= 1
                    /\ req[r].result[2].like_count = 0
\* the post_str_id of the post with id pid
PostStrIdOf(pid) == posts[CHOOSE k \in DOMAIN posts : posts[k].id = pid].post_str_id

\* C12: GET /users/:user_id_str/liked-posts is answered 200 with one
\* post_str_id per current like row of the user, in the order in which the
\* like rows were inserted (ascending like id), not in the order in which
\* the posts were created; a user without likes gets the empty list.
C12_LikedPostsInsertionOrder ==
    [][\A r \in Req :
          (Arrival(r) /\ req'[r].kind = "likedPosts")
          => LET rows == SelectRows(likes, UserLikes(req'[r].user_id_str), 1)
             IN /\ req'[r].status = 200
                /\ req'[r].result = [i \in DOMAIN rows |-> PostStrIdOf(rows[i].PostId)]]_vars

\* C13: for a fixed limit and fixed tables GET /posts/top has one possible
\* result: posts with equal like_count come in an order fixed by a secondary
\* key, not in an order the store chooses.
C13_TopDeterministic ==
    \A q \in LimitQueries : Cardinality(TopResults(q)) = 1

\* C14: no request removes or changes a post row: a row that exists keeps
\* its place with the same id, post_str_id and content in every later state,
\* and no two rows share a post_str_id or an id.
C14_PostsImmutable ==
    /\ [](\A i, j \in DOMAIN posts :
            (posts[i].post_str_id = posts[j].post_str_id \/ posts[i].id = posts[j].id)
                => i = j)
    /\ [][\A i \in DOMAIN posts : i \in DOMAIN posts' /\ posts'[i] = posts[i]]_vars

\* two posts exist, and a create-post that lost the race for one of them
\* had its INSERT rejected
C14_Witness ==
    /\ Len(posts) = 2
    /\ \E r \in Req : /\ req[r].kind = "createPost" /\ req[r].pc = "done"
                       /\ req[r].access = 2 /\ req[r].status \in {409, 500}

\* C15: GET /posts/top uses limit 5 exactly when ?limit is absent or does
\* not parse as an integer, and then returns min(5, number of posts)
\* entries; a limit that parses is passed to the store as it is.
C15_DefaultLimit ==
    [][\A r \in Req :
          (Arrival(r) /\ req'[r].kind = "top")
          => LET n == ParseInt(req'[r].limit)
             IN Len(req'[r].result) =
                   IF n.nan THEN Min(DefaultLimit, Len(posts))
                   ELSE Len(Truncate(posts, n.val))]_vars
\* C16: a request whose store call failed is answered, with status 500 and
\* an error body, and its handler has ended; a handler that has answered
\* never answers again (its response changes only when the next request
\* takes its place); and after the failure a request can still arrive.
C16_StoreFailureIs500 ==
    /\ [](\A r \in Req :
            req[r].failed
            => /\ req[r].pc = "done" /\ req[r].status = 500
               /\ req[r].body = "Internal server error"
               /\ \E s \in Req : Free(s))
    /\ [][\A r \in Req :
            (req[r].pc = "done" /\ req'[r] # req[r])
            => (Arrival(r) \/ req'[r] = Idle)]_vars

\* the INSERT of a like failed while the other request was being handled
C16_Witness ==
    \E r \in Req : /\ req[r].failed /\ req[r].kind = "like" /\ req[r].access = 3
                    /\ req[r].status = 500
                    /\ \E s \in Req \ {r} : req[s].pc # "idle"
\* C17: the server listens only after sequelize.sync() has completed with
\* success, and a request is handled only then; once the synchronization has
\* failed it stays failed and the server never listens.
C17_ListenAfterSync ==
    /\ [](/\ listening => sync = "done"
          /\ \A r \in Req : req[r].pc # "idle" => (listening /\ sync = "done"))
    /\ [][sync = "failed" => (sync' = "failed" /\ ~listening')]_vars

\* the server listens and has answered a create-post request
C17_Witness ==
    /\ listening
    /\ \E r \in Req : req[r].kind = "createPost" /\ req[r].status = 201
\* the like rows of user v in the table ls, in table order
RowsOfUser(ls, v) == SelectRows(ls, {i \in DOMAIN ls : ls[i].user_id_str = v}, 1)

\* the like rows on post pid in the table ls, in table order
RowsOnPost(ls, pid) == SelectRows(ls, {i \in DOMAIN ls : ls[i].PostId = pid}, 1)

\* C18: every step of a like or unlike request by user u on post p leaves
\* the posts as they are and adds or removes at most the one like row of
\* (u, p): the like rows of every other post (hence its like count) and the
\* like rows of every other user (hence that user's liked posts) are the same
\* before and after.
C18_LikeFrame ==
    [][\A r \in Req :
          (/\ req'[r] # req[r]
           /\ req'[r].kind \in {"like", "unlike"}
           /\ req'[r].pc # "idle")
          => LET u == req'[r].user_id_str
                 pid == FindPost(req'[r].post_str_id).id
                 changed == (RowSet(likes) \ RowSet(likes')) \cup
                            (RowSet(likes') \ RowSet(likes))
             IN /\ posts' = posts
                /\ Cardinality(changed) <= 1
                /\ \A row \in changed : row.user_id_str = u /\ row.PostId = pid
                /\ \A i \in DOMAIN posts :
                      posts[i].id # pid
                      => RowsOnPost(likes', posts[i].id) = RowsOnPost(likes, posts[i].id)
                /\ \A v \in Users \ {u} : RowsOfUser(likes', v) = RowsOfUser(likes, v)]_vars

\* an unlike removed a user's like of a post that another user still likes
C18_Witness ==
    \E r \in Req :
        /\ req[r].kind = "unlike" /\ req[r].pc = "done" /\ req[r].body = "unliked"
        /\ \E i \in DOMAIN likes :
              /\ likes[i].PostId = FindPost(req[r].post_str_id).id
              /\ likes[i].user_id_str # req[r].user_id_str

\* the (user, post) pairs of a likes table
Pairs(ls) == {<<ls[i].user_id_str, ls[i].PostId>> : i \in DOMAIN ls}

\* C19: when a like by u of an existing post p answered 201 "liked" and the
\* next request is an unlike by u of p, that unlike answers 200 "unliked" and
\* leaves the set of (user, post) like pairs as it was before the like; the
\* posts and the whole likes table are as before the like too, so every
\* count and every top ranking, which are computed from them, is as before.
C19_LikeThenUnlike ==
    [][\A r \in Req :
          (/\ Step(r, "unlike", "destroy")
           /\ Follows(req[r].user_id_str, req[r].post, "unliking"))
          => /\ req'[r].pc = "done"
             /\ req'[r].status = 200
             /\ req'[r].body = "unliked"
             /\ <<trip.user, trip.post>> \notin Pairs(trip.before)
             /\ <<trip.user, trip.post>> \in Pairs(likes)
             /\ Pairs(likes') = Pairs(trip.before)
             /\ likes' = trip.before
             /\ posts' = posts
             /\ \A i \in DOMAIN posts :
                   Cardinality(Likers(likes', posts[i].id))
                      = Cardinality(Likers(trip.before, posts[i].id))]_vars

\* a like and the unlike after it have run, and another like row was there
\* before and is there after
C19_Witness ==
    /\ trip.stage = "undone"
    /\ trip.before # <<>>
    /\ likes = trip.before
    /\ \E r \in Req : /\ req[r].kind = "unlike" /\ req[r].pc = "done"
                      /\ req[r].body = "unliked"
====
